---- MODULE Spec2Model ----
(***************************************************************************)
(* Global-ID assignment and registry of import_issues.py:                  *)
(* GlobalIDAssigner (classifier, registry, assign_id, update) and the      *)
(* GitHubImporter.run orchestration around it.                             *)
(*                                                                         *)
(* Python str values are TLA+ strings; SubSeq, \o and Len act on them      *)
(* character by character.  Python None is the empty set and an optional   *)
(* value v is the singleton {v}, so that optional fields stay comparable.  *)
(***************************************************************************)
EXTENDS Integers, Sequences, FiniteSets, TLC

VARIABLES
    store,          \* content of the registry file global_registry.json
    registry,       \* GlobalIDAssigner.registry (dict: global id -> record)
    repo_name,      \* GlobalIDAssigner.repo_name
    project_code,   \* GlobalIDAssigner.project_code
    warned,         \* whether __init__ printed the MISC warning
    phase,          \* lifecycle of the process / of the assigner instance
    history,        \* assign_id calls of this instance, in order
    last,           \* the most recent registry operation and its outcome
    dry_run,        \* GitHubImporter.dry_run
    epics,          \* epics returned by parse_markdown
    issues,         \* issues returned by parse_markdown
    idx,            \* position of run() in its current loop
    created,        \* create_issue calls of this run, in order, with results
    loaded,         \* the registry file as _load_registry found it
    mutated,        \* whether this instance changed its registry since loading
    runs,           \* process invocations (assigner instances) so far
    arg,            \* input of the function under study
    ret,            \* its result
    callers         \* the assign_id activations of concurrent callers

vars == <<store, registry, repo_name, project_code, warned, phase, history,
          last, dry_run, epics, issues, idx, created, loaded, mutated, runs,
          arg, ret, callers>>

-----------------------------------------------------------------------------
(* Bounds of the model.                                                    *)

MaxKeys == 3        \* registry size up to which assign_id is called (Spec)
MaxSeq == 11        \* assign_id calls in a row (SpecSeq)
MaxLabels == 2      \* length of the label lists given to the classifier
MaxIssues == 1      \* issues per backlog (SpecRun)
MaxRuns == 1        \* process invocations sharing one registry file
MaxRemote == 1      \* remote issue numbers are 1..MaxRemote
MaxInvocations == 2 \* process invocations in a row on one file (SpecDry)

-----------------------------------------------------------------------------
(* Python values.                                                          *)

None == {}
Some(v) == {v}

\* Code points of the characters that occur, in increasing order.
CharOrder == "\t\n #-/0123456789ABCDEFGHIJKLMNOPQRSTUVWXYZ_abcdefghijklmnopqrstuvwxyz"
UpperChars == "ABCDEFGHIJKLMNOPQRSTUVWXYZ"
LowerChars == "abcdefghijklmnopqrstuvwxyz"
Whitespace == {" ", "\t", "\n"}

CharAt(s, i) == SubSeq(s, i, i)

IndexIn(alphabet, c) ==
    IF \E i \in 1..Len(alphabet) : CharAt(alphabet, i) = c
    THEN CHOOSE i \in 1..Len(alphabet) : CharAt(alphabet, i) = c
    ELSE 0

\* str.lower()
LowerChar(c) ==
    IF IndexIn(UpperChars, c) > 0 THEN CharAt(LowerChars, IndexIn(UpperChars, c)) ELSE c

RECURSIVE Lower(_)
Lower(s) == IF s = "" THEN "" ELSE LowerChar(CharAt(s, 1)) \o Lower(SubSeq(s, 2, Len(s)))

\* str.strip()
RECURSIVE LStrip(_)
LStrip(s) ==
    IF s # "" /\ CharAt(s, 1) \in Whitespace THEN LStrip(SubSeq(s, 2, Len(s))) ELSE s

RECURSIVE RStrip(_)
RStrip(s) ==
    IF s # "" /\ CharAt(s, Len(s)) \in Whitespace THEN RStrip(SubSeq(s, 1, Len(s) - 1)) ELSE s

Strip(s) == RStrip(LStrip(s))

\* sub in s
Contains(s, sub) ==
    \E i \in 1..(Len(s) - Len(sub) + 1) : SubSeq(s, i, i + Len(sub) - 1) = sub

\* s.startswith(p)
StartsWith(s, p) == Len(p) <= Len(s) /\ SubSeq(s, 1, Len(p)) = p

\* s.split('/')[-1]
RECURSIVE LastSegment(_)
LastSegment(s) ==
    IF Contains(s, "/")
    THEN LastSegment(SubSeq(s, (CHOOSE i \in 1..Len(s) : CharAt(s, i) = "/") + 1, Len(s)))
    ELSE s

\* ' '.join(labels)
RECURSIVE Join(_)
Join(labels) ==
    IF labels = <<>> THEN ""
    ELSE IF Len(labels) = 1 THEN labels[1]
    ELSE labels[1] \o " " \o Join(Tail(labels))

\* f"{n:02d}": padding to width 2 only
Format02d(n) == IF Len(ToString(n)) >= 2 THEN ToString(n) ELSE "0" \o ToString(n)

\* f"{n:03d}": the decimal digits of n, left-padded with zeros to width 3
Format03d(n) ==
    LET digits == ToString(n)
    IN  IF Len(digits) >= 3 THEN digits
        ELSE IF Len(digits) = 2 THEN "0" \o digits
        ELSE "00" \o digits

\* a < b as Python compares str: by code point, a proper prefix first
RECURSIVE StrLess(_, _)
StrLess(a, b) ==
    IF b = "" THEN FALSE
    ELSE IF a = "" THEN TRUE
    ELSE IF CharAt(a, 1) = CharAt(b, 1)
         THEN StrLess(SubSeq(a, 2, Len(a)), SubSeq(b, 2, Len(b)))
         ELSE IndexIn(CharOrder, CharAt(a, 1)) < IndexIn(CharOrder, CharAt(b, 1))

-----------------------------------------------------------------------------
(* The static tables, in source order.                                     *)

PROJECT_CODES == <<
    <<"space-colony-modelica-core", "MODELICA">>,
    <<"modelica-rust-ffi", "FFI">>,
    <<"modelica-rust-modbus-server", "MODBUS">>,
    <<"godot-modelica-rust-integration", "GODOT">>,
    <<"v-ics-le", "VICS">>,
    <<"V-ICS", "VICS">>,
    <<"lunaco-sim", "LUNACO">>,
    <<"godot-colony-sim", "COLONY">>,
    <<"modelica-godot-integration", "CORE">>,
    <<"colony-sim-framework", "COLONY">>,
    <<"mars-irrigation", "IRRIGATION">> >>

COMPONENT_MAP == <<
    <<"setup", "ENV">>, <<"environment", "ENV">>, <<"installation", "ENV">>,
    <<"poc", "POC">>, <<"proof-of-concept", "POC">>, <<"validation", "POC">>,
    <<"build", "BUILD">>, <<"automation", "BUILD">>, <<"compilation", "BUILD">>,
    <<"ci", "BUILD">>,
    <<"modeling", "MODEL">>, <<"model", "MODEL">>, <<"physics", "MODEL">>,
    <<"simulation", "MODEL">>,
    <<"rust", "RUST">>, <<"ffi", "FFI">>, <<"bindings", "FFI">>,
    <<"safety", "RUST">>, <<"concurrency", "RUST">>,
    <<"modbus", "PROTO">>, <<"protocol", "PROTO">>, <<"networking", "NET">>,
    <<"tcp", "NET">>,
    <<"integration", "INTEG">>, <<"godot", "GODOT">>, <<"api", "API">>,
    <<"config", "CONFIG">>, <<"configuration", "CONFIG">>,
    <<"deployment", "DEPLOY">>, <<"docker", "DEPLOY">>,
    <<"performance", "PERF">>, <<"optimization", "PERF">>,
    <<"visualization", "VIZ">>, <<"ui", "VIZ">>, <<"frontend", "VIZ">>,
    <<"backend", "BACKEND">>, <<"server", "BACKEND">>,
    <<"power-systems", "POWER">>, <<"electrical", "POWER">>,
    <<"life-support", "LIFE">>, <<"eclss", "LIFE">>,
    <<"thermal", "THERMAL">>, <<"heating", "THERMAL">>,
    <<"security", "SEC">>, <<"attacks", "SEC">>,
    <<"plc", "PLC">>,
    <<"testing", "TEST">>, <<"test", "TEST">>,
    <<"documentation", "DOC">>, <<"docs", "DOC">>,
    <<"data", "DATA">> >>

\* key in table
InTable(table, key) == \E i \in 1..Len(table) : table[i][1] = key

\* table[key]
Lookup(table, key) == table[CHOOSE i \in 1..Len(table) : table[i][1] = key][2]

-----------------------------------------------------------------------------
(* Classifier.                                                             *)

\* a partial match that only looks for a table key inside the name
RECURSIVE PartialMatchKeyInName(_, _)
PartialMatchKeyInName(clean_name, i) ==
    IF i > Len(PROJECT_CODES) THEN "MISC"
    ELSE IF Contains(clean_name, PROJECT_CODES[i][1])
         THEN PROJECT_CODES[i][2]
         ELSE PartialMatchKeyInName(clean_name, i + 1)

\* the "partial match" loop of _get_project_code, from table position i
RECURSIVE PartialMatch(_, _)
PartialMatch(clean_name, i) ==
    IF i > Len(PROJECT_CODES) THEN "MISC"
    ELSE IF Contains(clean_name, PROJECT_CODES[i][1]) \/ Contains(PROJECT_CODES[i][1], clean_name)
         THEN PROJECT_CODES[i][2]
         ELSE PartialMatch(clean_name, i + 1)

get_project_code(repo) ==
    LET clean_name == IF Contains(repo, "/") THEN LastSegment(repo) ELSE repo
    IN  IF InTable(PROJECT_CODES, clean_name)
        THEN Lookup(PROJECT_CODES, clean_name)
        ELSE PartialMatch(clean_name, 1)

\* the fallback of _get_component_code on the joined, lowercased labels
ComponentFallback(label_text) ==
    IF Contains(label_text, "rust") \/ Contains(label_text, "ffi") THEN "RUST"
    ELSE IF Contains(label_text, "modbus") \/ Contains(label_text, "protocol") THEN "PROTO"
    ELSE IF Contains(label_text, "godot") THEN "GODOT"
    ELSE IF Contains(label_text, "model") \/ Contains(label_text, "physics") THEN "MODEL"
    ELSE IF Contains(label_text, "config") THEN "CONFIG"
    ELSE "MISC"

\* the label loop of _get_component_code, from label i
RECURSIVE LabelLoop(_, _)
LabelLoop(labels, i) ==
    IF i > Len(labels) THEN ComponentFallback(Lower(Join(labels)))
    ELSE LET label_lower == Strip(Lower(labels[i]))
         IN  IF InTable(COMPONENT_MAP, label_lower)
             THEN Lookup(COMPONENT_MAP, label_lower)
             ELSE LabelLoop(labels, i + 1)

\* a label walk in which the last label found in the table wins
get_component_code_last_wins(labels) ==
    LabelLoop([i \in 1..Len(labels) |-> labels[Len(labels) + 1 - i]], 1)

get_component_code(labels) == LabelLoop(labels, 1)

-----------------------------------------------------------------------------
(* The registry file and the in-memory registry.                           *)
(*                                                                         *)
(* The file is absent, unparseable, or a JSON object: the sequence of its  *)
(* (key, value) members in file order.  The in-memory registry is a dict:  *)
(* a function from keys to records.                                        *)

MissingStore == [kind |-> "missing", entries |-> <<>>]
CorruptStore == [kind |-> "corrupt", entries |-> <<>>]
JsonStore(entries) == [kind |-> "json", entries |-> entries]
NoStore == [kind |-> "unset", entries |-> <<>>]

EmptyDict == <<>>

\* d[k] = v
DictSet(d, k, v) == [x \in DOMAIN d \cup {k} |-> IF x = k THEN v ELSE d[x]]

\* json.load of an object: members in order, a repeated key keeps the last value
RECURSIVE FromEntries(_)
FromEntries(entries) ==
    IF entries = <<>> THEN EmptyDict
    ELSE LET n == Len(entries)
         IN  DictSet(FromEntries(SubSeq(entries, 1, n - 1)), entries[n][1], entries[n][2])

\* sorted(d.keys())
RECURSIVE SortedKeys(_)
SortedKeys(keys) ==
    IF keys = {} THEN <<>>
    ELSE LET least == CHOOSE k \in keys : \A other \in keys \ {k} : StrLess(k, other)
         IN  <<least>> \o SortedKeys(keys \ {least})

\* json.dump(d, sort_keys=True): one member per key, in sorted key order
Dump(d) ==
    LET keys == SortedKeys(DOMAIN d)
    IN  [i \in 1..Len(keys) |-> <<keys[i], d[keys[i]]>>]

\* a load that never reads the file
load_registry_fresh(file) == [raised |-> None, value |-> EmptyDict]

\* a load that treats an unparseable file like a missing one
load_registry_lenient(file) ==
    IF file.kind = "json" THEN [raised |-> None, value |-> FromEntries(file.entries)]
    ELSE [raised |-> None, value |-> EmptyDict]

\* _load_registry: the dict, or the exception json.load raises
load_registry(file) ==
    IF file.kind = "missing" THEN [raised |-> None, value |-> EmptyDict]
    ELSE IF file.kind = "json" THEN [raised |-> None, value |-> FromEntries(file.entries)]
    ELSE [raised |-> Some("JSONDecodeError"), value |-> EmptyDict]

\* _save_registry: the file content written
save_registry(reg) == JsonStore(Dump(reg))

-----------------------------------------------------------------------------
(* GlobalIDAssigner.                                                       *)

\* a count that compares whole keys instead of their beginning
count_existing_whole_key(reg, prefix) == Cardinality({gid \in DOMAIN reg : gid = prefix})

\* _count_existing
count_existing(reg, prefix) == Cardinality({gid \in DOMAIN reg : StartsWith(gid, prefix)})

\* assign_id up to the computation of global_id
compute_id(reg, project, issue) ==
    LET component == get_component_code(issue.labels)
        prefix == project \o "-" \o component
        next_num == count_existing(reg, prefix) + 1
    IN  [component |-> component, prefix |-> prefix,
         global_id |-> prefix \o "-" \o Format03d(next_num)]

\* the record assign_id stores
NewRecord(id, project, repo, issue) ==
    [global_id |-> id.global_id,
     project |-> project,
     component |-> id.component,
     local_number |-> issue.number,
     github_repo |-> repo,
     github_number |-> None,
     title |-> issue.title,
     labels |-> issue.labels,
     milestone |-> issue.milestone,
     status |-> "open"]

\* an insert that keeps the record already stored under the key
store_record_keep_first(reg, gid, record) ==
    IF gid \in DOMAIN reg THEN reg ELSE DictSet(reg, gid, record)

\* self.registry[global_id] = {...}
store_record(reg, gid, record) == DictSet(reg, gid, record)

\* assign_id: the registry afterwards and the id returned
assign_id(reg, project, repo, issue) ==
    LET id == compute_id(reg, project, issue)
    IN  [registry |-> store_record(reg, id.global_id, NewRecord(id, project, repo, issue)),
         global_id |-> id.global_id, component |-> id.component, prefix |-> id.prefix]

\* update_github_number: the registry afterwards, whether it was saved, and
\* what the caller observes (the method returns None and raises nothing)
update_github_number(reg, gid, github_number) ==
    IF gid \in DOMAIN reg
    THEN [registry |-> [reg EXCEPT ![gid].github_number = Some(github_number)],
          saved |-> TRUE, raised |-> None]
    ELSE [registry |-> reg, saved |-> FALSE, raised |-> None]

-----------------------------------------------------------------------------
(* Inputs.                                                                 *)

HomeRepo == "bondlegend4/v-ics-le"
Repos == {HomeRepo, "totally-unknown-repo"}
RemoteNumbers == {17}

\* Issue objects as parse_markdown builds them (an epic has number 0 and no
\* milestone); the first two resolve to the same component.
IssueRust == [number |-> 1, title |-> "FFI layer", labels |-> <<"rust", "networking">>,
              milestone |-> Some("M1"), is_epic |-> FALSE]
IssueSafety == [number |-> 2, title |-> "Thread safety", labels |-> <<"Safety">>,
                milestone |-> Some("M1"), is_epic |-> FALSE]
IssueModbus == [number |-> 3, title |-> "Modbus server", labels |-> <<"modbus", "testing">>,
                milestone |-> Some("M2"), is_epic |-> FALSE]
EpicPlain == [number |-> 0, title |-> "Foundation", labels |-> <<"epic">>,
              milestone |-> None, is_epic |-> TRUE]

Issues == {IssueRust, IssueModbus}

\* a global id that no assignment of the model produces
AbsentId == "VICS-RUST-999"

NoCall == [op |-> "none", key |-> "", raised |-> None]

RunIdle ==
    /\ dry_run = FALSE /\ epics = <<>> /\ issues = <<>> /\ idx = 0 /\ created = <<>>
    /\ runs = 0

RunUnchanged == UNCHANGED <<dry_run, epics, issues, idx, created, runs>>

OtherIdle == arg = <<>> /\ ret = None /\ callers = <<>>

OtherUnchanged == UNCHANGED <<arg, ret, callers>>

NoInstance ==
    /\ registry = EmptyDict /\ repo_name = "" /\ project_code = "" /\ warned = FALSE
    /\ phase = "none" /\ history = <<>> /\ last = NoCall /\ loaded = NoStore
    /\ mutated = FALSE

-----------------------------------------------------------------------------
(* A caller of GlobalIDAssigner: construct, assign, update, save, discard.  *)

\* GlobalIDAssigner.__init__
Construct(repo) ==
    /\ phase = "none"
    /\ LET code == get_project_code(repo)
           r == load_registry(store)
       IN  /\ repo_name' = repo
           /\ project_code' = code
           /\ loaded' = store
           /\ last' = [op |-> "load", key |-> "", raised |-> r.raised]
           /\ IF r.raised # None
              THEN /\ phase' = "crashed"
                   /\ registry' = EmptyDict
                   /\ warned' = FALSE
              ELSE /\ phase' = "ready"
                   /\ registry' = r.value
                   /\ warned' = (code = "MISC")
    /\ history' = <<>>
    /\ mutated' = FALSE
    /\ UNCHANGED store

\* the effect of one assign_id call on the assigner
DoAssign(issue) ==
    LET a == assign_id(registry, project_code, repo_name, issue)
    IN  /\ registry' = a.registry
        /\ history' = Append(history, [global_id |-> a.global_id,
                                        project |-> project_code,
                                        component |-> a.component,
                                        issue |-> issue,
                                        present |-> a.global_id \in DOMAIN registry])
        /\ last' = [op |-> "assign_id", key |-> a.global_id, raised |-> None]
        /\ mutated' = TRUE
        /\ UNCHANGED <<store, repo_name, project_code, warned, loaded>>

\* assign_id
AssignId(issue) ==
    /\ phase = "ready"
    /\ Cardinality(DOMAIN registry) < MaxKeys
    /\ Len(history) < MaxKeys
    /\ DoAssign(issue)
    /\ UNCHANGED phase

\* the effect of one update_github_number call on the assigner and the file
DoUpdate(gid, github_number) ==
    LET u == update_github_number(registry, gid, github_number)
    IN  /\ registry' = u.registry
        /\ store' = IF u.saved THEN save_registry(u.registry) ELSE store
        /\ last' = [op |-> "update_github_number", key |-> gid, raised |-> u.raised]
        /\ mutated' = TRUE
        /\ UNCHANGED <<repo_name, project_code, warned, history, loaded>>

\* update_github_number
UpdateGithubNumber(gid, github_number) ==
    /\ phase = "ready"
    /\ DoUpdate(gid, github_number)
    /\ UNCHANGED phase

\* save
Save ==
    /\ phase = "ready"
    /\ store' = save_registry(registry)
    /\ last' = [op |-> "save", key |-> "", raised |-> None]
    /\ UNCHANGED <<registry, repo_name, project_code, warned, phase, history, loaded,
                   mutated>>

\* the instance is dropped (the process ends); the file stays
Discard ==
    /\ phase # "none"
    /\ registry' = EmptyDict /\ repo_name' = "" /\ project_code' = "" /\ warned' = FALSE
    /\ phase' = "none" /\ history' = <<>> /\ last' = NoCall /\ loaded' = NoStore
    /\ mutated' = FALSE
    /\ UNCHANGED store

Init ==
    /\ store = MissingStore
    /\ NoInstance
    /\ RunIdle
    /\ OtherIdle

Next ==
    \/ Construct(HomeRepo) /\ RunUnchanged /\ OtherUnchanged
    \/ \E issue \in Issues : AssignId(issue) /\ RunUnchanged /\ OtherUnchanged
    \/ \E gid \in DOMAIN registry \cup {AbsentId}, n \in RemoteNumbers :
           UpdateGithubNumber(gid, n) /\ RunUnchanged /\ OtherUnchanged
    \/ Save /\ RunUnchanged /\ OtherUnchanged
    \/ Discard /\ RunUnchanged /\ OtherUnchanged

Spec == Init /\ [][Next]_vars

-----------------------------------------------------------------------------
(* One assigner on an empty registry, given a long run of items (SpecSeq). *)

SeqIssues == {IssueSafety, IssueModbus}

\* assign_id, as the loop of run() calls it: one item after the other
AssignInSequence(issue) ==
    /\ phase = "ready"
    /\ Len(history) < MaxSeq
    /\ DoAssign(issue)
    /\ UNCHANGED phase

NextSeq ==
    \/ \E repo \in Repos : Construct(repo) /\ RunUnchanged /\ OtherUnchanged
    \/ \E issue \in SeqIssues : AssignInSequence(issue) /\ RunUnchanged /\ OtherUnchanged

SpecSeq == Init /\ [][NextSeq]_vars

-----------------------------------------------------------------------------
(* The same caller, starting from a registry file that exists (SpecStore). *)
(* The file holds records the program wrote, but any subset of them in any *)
(* member order: a file whose records were deleted or reordered by hand or *)
(* by another tool is still a JSON object that _load_registry accepts.     *)

\* the registry after assigning three items and recording one remote number
SeedRegistry ==
    LET r1 == assign_id(EmptyDict, "VICS", HomeRepo, IssueRust).registry
        r2 == assign_id(r1, "VICS", HomeRepo, IssueSafety).registry
        r3 == assign_id(r2, "VICS", HomeRepo, IssueModbus).registry
    IN  update_github_number(r3, "VICS-RUST-002", 17).registry

SeedEntries == {<<k, SeedRegistry[k]>> : k \in DOMAIN SeedRegistry}

\* the member sequences without a repeated key
WellFormedEntries ==
    UNION {{f \in [1..n -> SeedEntries] : \A i, j \in 1..n : i # j => f[i][1] # f[j][1]}
           : n \in 0..Cardinality(SeedEntries)}

InitStore ==
    /\ store \in {JsonStore(e) : e \in WellFormedEntries}
    /\ NoInstance
    /\ RunIdle
    /\ OtherIdle

NextStore ==
    \/ Construct(HomeRepo) /\ RunUnchanged /\ OtherUnchanged
    \/ \E issue \in Issues : AssignId(issue) /\ RunUnchanged /\ OtherUnchanged
    \/ \E gid \in DOMAIN registry \cup {AbsentId}, n \in RemoteNumbers :
           UpdateGithubNumber(gid, n) /\ RunUnchanged /\ OtherUnchanged
    \/ Save /\ RunUnchanged /\ OtherUnchanged
    \/ Discard /\ RunUnchanged /\ OtherUnchanged

SpecStore == InitStore /\ [][NextStore]_vars

-----------------------------------------------------------------------------
(* GitHubImporter: main() constructs it and calls run() (SpecRun).         *)
(* Milestones are not in the state: create_milestone touches neither the   *)
(* registry nor the file.  What a live run keeps of it is that it may      *)
(* raise and end the run before the first creation call.                   *)

RunIssues == {IssueRust, IssueModbus}

Backlogs ==
    {[epics |-> e, issues |-> i] :
        e \in {<<>>, <<EpicPlain>>},
        i \in UNION {[1..n -> RunIssues] : n \in 0..MaxIssues}}

\* what the subprocess calls of create_issue do in a live run:
\*   exit_nonzero  `gh issue create` exits with an error status
\*                 (CalledProcessError, check=True)
\*   url           it prints the URL of the issue it created, .../issues/n
\*   no_number     it exits 0 and its output does not end in an integer
\*                 (int() raises ValueError)
\*   os_error      subprocess.run itself raises (gh cannot be started), for
\*                 the creation or for the milestone PATCH after it
Outcomes(numbers) ==
    {[kind |-> k, number |-> 0] : k \in {"exit_nonzero", "no_number", "os_error"}}
    \cup {[kind |-> "url", number |-> n] : n \in numbers}

RemoteOutcomes == Outcomes(1..MaxRemote)

\* create_issue: the Optional[int] it returns, and what it raises; only
\* CalledProcessError is caught
create_issue(dry, issue, outcome) ==
    IF dry THEN [raised |-> None, value |-> Some(issue.number)]
    ELSE IF outcome.kind = "url" THEN [raised |-> None, value |-> Some(outcome.number)]
    ELSE IF outcome.kind = "exit_nonzero" THEN [raised |-> None, value |-> None]
    ELSE IF outcome.kind = "no_number" THEN [raised |-> Some("ValueError"), value |-> None]
    ELSE [raised |-> Some("OSError"), value |-> None]

\* `if github_number:`
Truthy(value) == value # None /\ value # Some(0)

Items == epics \o issues

\* main: GitHubImporter(repo, markdown_file, dry_run), outside the try block
StartRun(repo, dry) ==
    /\ runs < MaxRuns
    /\ Construct(repo)
    /\ runs' = runs + 1
    /\ dry_run' = dry
    /\ UNCHANGED <<epics, issues, idx, created>>

\* run: parse_markdown returns the backlog
Parse(backlog) ==
    /\ phase = "ready"
    /\ epics' = backlog.epics
    /\ issues' = backlog.issues
    /\ idx' = 1
    /\ phase' = "assigning"
    /\ UNCHANGED <<store, registry, repo_name, project_code, warned, history, last,
                   dry_run, created, loaded, mutated, runs>>

\* run: parse_markdown raises (the markdown file cannot be read); main
\* reports the error and returns 1
ParseFails ==
    /\ phase = "ready"
    /\ phase' = "failed"
    /\ UNCHANGED <<store, registry, repo_name, project_code, warned, history, last,
                   dry_run, epics, issues, idx, created, loaded, mutated, runs>>

\* run: one iteration of `for issue in epics + issues: assign_id(issue)`
AssignNextItem ==
    /\ phase = "assigning"
    /\ idx <= Len(Items)
    /\ DoAssign(Items[idx])
    /\ idx' = idx + 1
    /\ UNCHANGED <<phase, dry_run, epics, issues, created, runs>>

\* a run that saves the registry after the assignments whatever the mode
save_even_if_dry(dry, file, reg) == save_registry(reg)

\* run: `if not self.dry_run: self.id_assigner.save()`, as the content of the
\* registry file afterwards
save_unless_dry(dry, file, reg) == IF dry THEN file ELSE save_registry(reg)

\* run: after the loop, `if not self.dry_run: self.id_assigner.save()`
AfterAssign ==
    /\ phase = "assigning"
    /\ idx > Len(Items)
    /\ store' = save_unless_dry(dry_run, store, registry)
    /\ last' = IF dry_run THEN last ELSE [op |-> "save", key |-> "", raised |-> None]
    /\ phase' = "creating"
    /\ idx' = 1
    /\ UNCHANGED <<registry, repo_name, project_code, warned, history, dry_run, epics,
                   issues, created, loaded, mutated, runs>>

\* run: `for milestone in milestones: self.create_milestone(milestone)` in a
\* live run, when a create_milestone call raises something else than
\* CalledProcessError (gh cannot be started, its output is no number or no
\* JSON): run() is left before the first creation call
MilestoneFails ==
    /\ phase = "creating"
    /\ ~dry_run
    /\ idx = 1 /\ created = <<>>
    /\ phase' = "failed"
    /\ UNCHANGED <<store, registry, repo_name, project_code, warned, history, last,
                   dry_run, epics, issues, idx, created, loaded, mutated, runs>>

\* run: one iteration of a creation loop on Items[idx], whose global id is
\* the one assign_id gave it
CreateItem(outcome) ==
    LET gid == history[idx].global_id
        r == create_issue(dry_run, Items[idx], outcome)
    IN  /\ created' = Append(created, [global_id |-> gid, result |-> r.value])
        /\ idx' = idx + 1
        /\ IF r.raised # None
           THEN /\ phase' = "failed"
                /\ UNCHANGED <<store, registry, repo_name, project_code, warned, history,
                               last, loaded, mutated>>
           ELSE /\ UNCHANGED phase
                /\ IF Truthy(r.value) /\ ~dry_run
                   THEN \E n \in r.value : DoUpdate(gid, n)
                   ELSE UNCHANGED <<store, registry, repo_name, project_code, warned,
                                    history, last, loaded, mutated>>
        /\ UNCHANGED <<dry_run, epics, issues, runs>>

\* run: `for epic in epics`
CreateEpic(outcome) ==
    /\ phase = "creating"
    /\ idx <= Len(epics)
    /\ CreateItem(outcome)

\* run: `for issue in issues`
CreateIssue(outcome) ==
    /\ phase = "creating"
    /\ Len(epics) < idx /\ idx <= Len(Items)
    /\ CreateItem(outcome)

\* run returns; main returns 0
FinishRun ==
    /\ phase = "creating"
    /\ idx > Len(Items)
    /\ phase' = "done"
    /\ UNCHANGED <<store, registry, repo_name, project_code, warned, history, last,
                   dry_run, epics, issues, idx, created, loaded, mutated, runs>>

\* the process ends: normally, with main's error report, or with the
\* traceback of the exception the constructor raised
ExitProcess ==
    /\ phase \in {"done", "failed", "crashed"}
    /\ Discard
    /\ dry_run' = FALSE /\ epics' = <<>> /\ issues' = <<>> /\ idx' = 0 /\ created' = <<>>
    /\ UNCHANGED runs

InitRun ==
    /\ store \in {MissingStore, CorruptStore}
    /\ NoInstance
    /\ RunIdle
    /\ OtherIdle

NextRun ==
    \/ \E dry \in BOOLEAN : StartRun(HomeRepo, dry) /\ OtherUnchanged
    \/ \E backlog \in Backlogs : Parse(backlog) /\ OtherUnchanged
    \/ ParseFails /\ OtherUnchanged
    \/ AssignNextItem /\ OtherUnchanged
    \/ AfterAssign /\ OtherUnchanged
    \/ MilestoneFails /\ OtherUnchanged
    \/ \E outcome \in RemoteOutcomes : CreateEpic(outcome) /\ OtherUnchanged
    \/ \E outcome \in RemoteOutcomes : CreateIssue(outcome) /\ OtherUnchanged
    \/ FinishRun /\ OtherUnchanged
    \/ ExitProcess /\ OtherUnchanged

SpecRun == InitRun /\ [][NextRun]_vars

-----------------------------------------------------------------------------
(* One live run over a backlog of several epics and issues, with remote    *)
(* numbers that differ from item to item (SpecBatch).                      *)

EpicNet == [number |-> 0, title |-> "Networking", labels |-> <<"epic", "networking">>,
            milestone |-> None, is_epic |-> TRUE]

BatchBacklogs ==
    {[epics |-> <<EpicPlain, EpicNet>>, issues |-> <<IssueRust>>],
     [epics |-> <<EpicPlain>>, issues |-> <<IssueRust, IssueSafety, IssueModbus>>],
     [epics |-> <<>>, issues |-> <<IssueRust, IssueModbus>>]}

BatchNumbers == {17, 18}

BatchOutcomes == Outcomes(BatchNumbers)

\* main: GitHubImporter(repo, markdown_file, dry_run=False), once
StartLive(repo) ==
    /\ runs = 0
    /\ Construct(repo)
    /\ runs' = runs + 1
    /\ dry_run' = FALSE
    /\ UNCHANGED <<epics, issues, idx, created>>

InitBatch ==
    /\ store \in {MissingStore, save_registry(SeedRegistry)}
    /\ NoInstance
    /\ RunIdle
    /\ OtherIdle

NextBatch ==
    \/ StartLive(HomeRepo) /\ OtherUnchanged
    \/ \E backlog \in BatchBacklogs : Parse(backlog) /\ OtherUnchanged
    \/ ParseFails /\ OtherUnchanged
    \/ AssignNextItem /\ OtherUnchanged
    \/ AfterAssign /\ OtherUnchanged
    \/ MilestoneFails /\ OtherUnchanged
    \/ \E outcome \in BatchOutcomes : CreateEpic(outcome) /\ OtherUnchanged
    \/ \E outcome \in BatchOutcomes : CreateIssue(outcome) /\ OtherUnchanged
    \/ FinishRun /\ OtherUnchanged

SpecBatch == InitBatch /\ [][NextBatch]_vars

-----------------------------------------------------------------------------
(* The importer invoked again and again on one registry file, in either    *)
(* mode, starting from any file content (SpecDry).  ret keeps what the     *)
(* previous invocation was given and the global ids it assigned, when it   *)
(* ran to its end.                                                         *)

\* backlogs: an epic and an issue, two issues of one component
DryBacklogs ==
    {[epics |-> <<EpicPlain>>, issues |-> <<IssueModbus>>],
     [epics |-> <<>>, issues |-> <<IssueRust, IssueSafety>>]}

\* registry files found by the first invocation: none, an unparseable one,
\* the file a sequential use left behind, and a file that lost records
DryStores ==
    {MissingStore, CorruptStore, save_registry(SeedRegistry),
     JsonStore(<<<<"VICS-RUST-002", SeedRegistry["VICS-RUST-002"]>>>>)}

\* what the creation calls of a live invocation do
DryOutcomes == Outcomes(RemoteNumbers)

\* the global ids assign_id returned in this run, in order
AssignedIds == [i \in 1..Len(history) |-> history[i].global_id]

\* main: GitHubImporter(repo, markdown_file, dry_run), one more invocation
StartAgain(repo, dry) ==
    /\ runs < MaxInvocations
    /\ Construct(repo)
    /\ runs' = runs + 1
    /\ dry_run' = dry
    /\ UNCHANGED <<epics, issues, idx, created>>

\* the process ends; a run that returned from run() is remembered
ExitAndRemember ==
    /\ ExitProcess
    /\ ret' = IF phase = "done"
              THEN Some([dry |-> dry_run, repo |-> repo_name, epics |-> epics,
                         issues |-> issues, ids |-> AssignedIds])
              ELSE None
    /\ UNCHANGED <<arg, callers>>

InitDry ==
    /\ store \in DryStores
    /\ NoInstance
    /\ RunIdle
    /\ OtherIdle

NextDry ==
    \/ \E dry \in BOOLEAN : StartAgain(HomeRepo, dry) /\ OtherUnchanged
    \/ \E backlog \in DryBacklogs : Parse(backlog) /\ OtherUnchanged
    \/ ParseFails /\ OtherUnchanged
    \/ AssignNextItem /\ OtherUnchanged
    \/ AfterAssign /\ OtherUnchanged
    \/ MilestoneFails /\ OtherUnchanged
    \/ \E outcome \in DryOutcomes : CreateEpic(outcome) /\ OtherUnchanged
    \/ \E outcome \in DryOutcomes : CreateIssue(outcome) /\ OtherUnchanged
    \/ FinishRun /\ OtherUnchanged
    \/ ExitAndRemember

SpecDry == InitDry /\ [][NextDry]_vars

-----------------------------------------------------------------------------
(* Two callers of assign_id on one assigner, as threads of one interpreter *)
(* (SpecRace).  The interpreter can switch threads after each pass of the  *)
(* loop of _count_existing and between the count and the insert.  The      *)
(* loop reads a dict iterator: a read that finds the dict with another     *)
(* size than when the iterator was made raises RuntimeError.               *)

Callers == {1, 2}

RaceIssues == {IssueRust, IssueSafety, IssueModbus}

\* registries a sequential use of the assigner leaves behind
RaceRegistries ==
    {EmptyDict,
     assign_id(EmptyDict, "VICS", HomeRepo, IssueModbus).registry,
     SeedRegistry}

\* used: size of the dict when the iterator was made; pos: keys read so far
IdleCall == [pc |-> "idle", issue |-> IssueRust,
             id |-> [component |-> "", prefix |-> "", global_id |-> ""],
             used |-> 0, pos |-> 0, count |-> 0]

\* _count_existing: the iterator is asked for the next key.  It raises when
\* the dict changed size, ends the loop after the last key (then count is
\* returned and assign_id computes global_id), and otherwise gives a key
\* that the loop body tests.  Only the number of keys that start with the
\* prefix matters, so the keys are read in sorted order.
CountLoopStep(reg, call) ==
    IF Cardinality(DOMAIN reg) # call.used
    THEN [call EXCEPT !.pc = "raised"]
    ELSE IF call.pos >= call.used
    THEN [call EXCEPT !.pc = "counted",
                      !.id.global_id = call.id.prefix \o "-" \o Format03d(call.count + 1)]
    ELSE LET gid == SortedKeys(DOMAIN reg)[call.pos + 1]
         IN  [call EXCEPT !.pc = "counting",
                          !.pos = @ + 1,
                          !.count = IF StartsWith(gid, call.id.prefix) THEN @ + 1 ELSE @]

InitRace ==
    /\ store = MissingStore
    /\ registry \in RaceRegistries
    /\ repo_name = HomeRepo
    /\ project_code = "VICS"
    /\ warned = FALSE
    /\ phase = "ready"
    /\ history = <<>>
    /\ last = NoCall
    /\ loaded = MissingStore
    /\ mutated = FALSE
    /\ RunIdle
    /\ arg = <<>>
    /\ ret = None
    /\ callers = [call |-> [c \in Callers |-> IdleCall],
                  events |-> <<>>,
                  base |-> Cardinality(DOMAIN registry)]

\* assign_id: component, prefix, and _count_existing up to the first read of
\* the iterator, which follows its creation without a thread switch
RaceCount(c, issue) ==
    LET component == get_component_code(issue.labels)
        start == [pc |-> "counting", issue |-> issue,
                  id |-> [component |-> component,
                          prefix |-> project_code \o "-" \o component,
                          global_id |-> ""],
                  used |-> Cardinality(DOMAIN registry), pos |-> 0, count |-> 0]
        after == CountLoopStep(registry, start)
    IN  /\ callers.call[c].pc = "idle"
        /\ callers' = [callers EXCEPT
               !.call[c] = after,
               !.events = IF after.pc = "counted"
                          THEN @ \o << <<"begin", c>>, <<"count", c>> >>
                          ELSE Append(@, <<"begin", c>>)]
        /\ UNCHANGED <<store, registry, repo_name, project_code, warned, phase, history,
                       last, loaded, mutated, arg, ret>>
        /\ RunUnchanged

\* _count_existing: a later read of the iterator; when it raises, assign_id
\* ends with the RuntimeError and stores nothing
RaceCountNext(c) ==
    LET after == CountLoopStep(registry, callers.call[c])
    IN  /\ callers.call[c].pc = "counting"
        /\ callers' = [callers EXCEPT
               !.call[c] = after,
               !.events = IF after.pc = "counted" THEN Append(@, <<"count", c>>)
                          ELSE IF after.pc = "raised" THEN Append(@, <<"raise", c>>)
                          ELSE @]
        /\ UNCHANGED <<store, registry, repo_name, project_code, warned, phase, history,
                       last, loaded, mutated, arg, ret>>
        /\ RunUnchanged

\* assign_id, second half: the record is stored under global_id
RaceInsert(c) ==
    /\ callers.call[c].pc = "counted"
    /\ registry' = store_record(registry, callers.call[c].id.global_id,
                                NewRecord(callers.call[c].id, project_code, repo_name,
                                          callers.call[c].issue))
    /\ callers' = [callers EXCEPT !.call[c].pc = "done",
                                  !.events = Append(@, <<"insert", c>>)]
    /\ mutated' = TRUE
    /\ UNCHANGED <<store, repo_name, project_code, warned, phase, history, last, loaded,
                   arg, ret>>
    /\ RunUnchanged

NextRace ==
    \/ \E c \in Callers, issue \in RaceIssues : RaceCount(c, issue)
    \/ \E c \in Callers : RaceCountNext(c)
    \/ \E c \in Callers : RaceInsert(c)

SpecRace == InitRace /\ [][NextRace]_vars

-----------------------------------------------------------------------------
(* The classifier on its own (SpecComponent, SpecProject).                 *)

\* labels: table keys, keys in other case or with blanks around them, labels
\* that only contain a heuristic word, and labels that match nothing
LabelVocabulary ==
    {"rust", "networking", "modbus", "testing", " Rust ", "TCP", "my-protocol",
     "Godot4", "physics-engine", "reconfig", "epic", "my-ffi"}

LabelLists == UNION {[1..n -> LabelVocabulary] : n \in 0..MaxLabels}

InitComponent ==
    /\ store = MissingStore
    /\ NoInstance
    /\ RunIdle
    /\ arg \in LabelLists
    /\ ret = None
    /\ callers = <<>>

\* _get_component_code(arg)
ClassifyLabels ==
    /\ ret = None
    /\ ret' = Some(get_component_code(arg))
    /\ UNCHANGED <<store, registry, repo_name, project_code, warned, phase, history,
                   last, loaded, mutated, arg, callers>>
    /\ RunUnchanged

SpecComponent == InitComponent /\ [][ClassifyLabels]_vars

\* repository identifiers: with and without owner, exact keys, names that
\* contain a key or are contained in one, and names that match nothing
OwnerPrefixes == {"", "bondlegend4/", "mirror/bondlegend4/"}

RepoNames ==
    {"v-ics-le", "V-ICS", "lunaco-sim", "mars-irrigation", "godot-colony-sim",
     "v-ics-le-fork", "my-lunaco-sim-2", "godot-colony-sim-framework",
     "modelica", "rust", "godot", "colony", "sim", "v-ics", "",
     "totally-unknown-repo", "MODELICA", "V-ICS-LE", "zzz"}

RepoInputs == {o \o n : o \in OwnerPrefixes, n \in RepoNames}

InitProject ==
    /\ store \in {MissingStore, CorruptStore}
    /\ NoInstance
    /\ RunIdle
    /\ arg \in RepoInputs
    /\ ret = None
    /\ callers = <<>>

\* GlobalIDAssigner(arg)
ConstructFor ==
    /\ Construct(arg)
    /\ RunUnchanged
    /\ OtherUnchanged

SpecProject == InitProject /\ [][ConstructFor]_vars

-----------------------------------------------------------------------------
(* Claims about the classifier.                                            *)

Normalized(label) == Strip(Lower(label))

\* positions of the labels that are keys of the label table
KeyPositions(labels) ==
    {i \in 1..Len(labels) : InTable(COMPONENT_MAP, Normalized(labels[i]))}

Least(S) == CHOOSE x \in S : \A y \in S : x <= y

\* the substring heuristics, in their fixed order
HeuristicRules ==
    << <<{"rust", "ffi"}, "RUST">>,
       <<{"modbus", "protocol"}, "PROTO">>,
       <<{"godot"}, "GODOT">>,
       <<{"model", "physics"}, "MODEL">>,
       <<{"config"}, "CONFIG">> >>

RulesMatching(text) ==
    {r \in 1..Len(HeuristicRules) : \E w \in HeuristicRules[r][1] : Contains(text, w)}

ExpectedComponent(labels) ==
    IF KeyPositions(labels) # {}
    THEN Lookup(COMPONENT_MAP, Normalized(labels[Least(KeyPositions(labels))]))
    ELSE IF RulesMatching(Lower(Join(labels))) # {}
         THEN HeuristicRules[Least(RulesMatching(Lower(Join(labels))))][2]
         ELSE "MISC"

\* C5: the component is the code of the first label, in list order, that is
\* a key of the label table once lowercased and trimmed; without such a label
\* it is the code of the first heuristic whose word occurs in the joined
\* lowercase labels, and MISC only when no heuristic matches.
C5_FirstMatchWins ==
    ret # None =>
        /\ ret = Some(ExpectedComponent(arg))
        /\ (arg = <<"rust", "networking">> => ret = Some("RUST"))
        /\ (arg = <<"modbus", "testing">> => ret = Some("PROTO"))
        /\ (ret = Some("MISC") <=>
               (KeyPositions(arg) = {} /\ RulesMatching(Lower(Join(arg))) = {}))

\* C5 witness: a list whose first and second labels are keys with different
\* codes has been classified by its first label.
C5_Witness ==
    /\ arg = <<"rust", "networking">>
    /\ ret = Some("RUST")

\* the part of a repository identifier after its last "/"
Segment(repo) ==
    CHOOSE t \in {SubSeq(repo, i, Len(repo)) : i \in 1..(Len(repo) + 1)} :
        /\ ~Contains(t, "/")
        /\ (t = repo \/ CharAt(repo, Len(repo) - Len(t)) = "/")

ExactKeys(seg) == {i \in 1..Len(PROJECT_CODES) : PROJECT_CODES[i][1] = seg}

PartialKeys(seg) ==
    {i \in 1..Len(PROJECT_CODES) :
        Contains(seg, PROJECT_CODES[i][1]) \/ Contains(PROJECT_CODES[i][1], seg)}

ExpectedProject(repo) ==
    IF ExactKeys(Segment(repo)) # {}
    THEN PROJECT_CODES[Least(ExactKeys(Segment(repo)))][2]
    ELSE IF PartialKeys(Segment(repo)) # {}
         THEN PROJECT_CODES[Least(PartialKeys(Segment(repo)))][2]
         ELSE "MISC"

\* C6: the project code of an assigner is the code of the table key equal to
\* the identifier's last path segment, else of the first key in table order
\* that contains the segment or is contained in it, and MISC exactly when no
\* key matches either way; MISC comes with the warning and never makes the
\* construction fail (only an unparseable registry file does).
C6_ProjectResolution ==
    phase # "none" =>
        /\ project_code = ExpectedProject(arg)
        /\ (project_code = "MISC" <=>
               (ExactKeys(Segment(arg)) = {} /\ PartialKeys(Segment(arg)) = {}))
        /\ (phase = "ready" => (warned <=> project_code = "MISC"))
        /\ (phase = "crashed" <=> loaded = CorruptStore)

\* C6 witness: an assigner for an unrecognized repository was constructed,
\* with code MISC and the warning.
C6_Witness ==
    /\ arg = "totally-unknown-repo"
    /\ phase = "ready"
    /\ project_code = "MISC"
    /\ warned

-----------------------------------------------------------------------------
(* Claims about the assigner under sequential use (Spec, SpecSeq).         *)

\* C1: within one assigner instance, whether its registry started empty or
\* was loaded from a file an earlier instance saved, no two assign_id calls
\* return the same global id.
C1_Uniqueness ==
    \A i, j \in 1..Len(history) :
        i # j => history[i].global_id # history[j].global_id

\* C1 witness: an instance that loaded a non-empty saved registry has made
\* two assignments under the prefix the loaded records already use.
C1_Witness ==
    /\ loaded.kind = "json"
    /\ loaded.entries # <<>>
    /\ Len(history) >= 2
    /\ history[1].component = history[2].component
    /\ \E e \in 1..Len(loaded.entries) :
           loaded.entries[e][2].component = history[1].component

Digit(d) == CharAt("0123456789", d + 1)

\* k written with exactly three decimal digits (k < 1000)
ThreeDigits(k) == Digit(k \div 100) \o Digit((k \div 10) % 10) \o Digit(k % 10)

\* how many of the first i assignments resolved to the pair of the i-th
RankInPrefix(i) ==
    Cardinality({j \in 1..i : /\ history[j].project = history[i].project
                              /\ history[j].component = history[i].component})

\* C2: starting from an empty registry, the k-th item assigned under a
\* (project, component) pair gets {project}-{component}-{k as three digits},
\* whatever was assigned under other pairs in between.
C2_PrefixMonotonic ==
    loaded = MissingStore =>
        \A i \in 1..Len(history) :
            history[i].global_id =
                history[i].project \o "-" \o history[i].component \o "-"
                    \o ThreeDigits(RankInPrefix(i))

\* C2 witness: the tenth item of one pair has been assigned, with items of
\* another pair assigned before it.
C2_Witness ==
    /\ loaded = MissingStore
    /\ \E i \in 1..Len(history) :
           /\ RankInPrefix(i) = 10
           /\ \E j \in 1..i : history[j].component # history[i].component

\* C4 (as claimed): update_github_number on a global id that is not in the
\* registry ends with a NotFound error and changes neither the registry nor
\* the file; on a present id it sets the number and saves the registry.
C4_UpdateReportsNotFound ==
    [][\A gid \in DOMAIN registry \cup {AbsentId}, n \in RemoteNumbers :
          UpdateGithubNumber(gid, n) =>
              IF gid \in DOMAIN registry
              THEN /\ registry'[gid].github_number = Some(n)
                   /\ store' = save_registry(registry')
                   /\ last'.raised = None
              ELSE /\ registry' = registry
                   /\ store' = store
                   /\ last'.raised = Some("NotFound")]_vars

-----------------------------------------------------------------------------
(* Claims about a registry file that already exists (SpecStore).           *)

\* C3 (as claimed): a record, once in the registry, changes only in its
\* remote number; an assign_id whose computed id is already a key fails with
\* DuplicateId and leaves the registry as it was.
C3_NeverOverwritten ==
    [][/\ (phase = "ready" /\ phase' = "ready") =>
            \A gid \in DOMAIN registry :
                /\ gid \in DOMAIN registry'
                /\ registry'[gid] =
                       [registry[gid] EXCEPT !.github_number = registry'[gid].github_number]
       /\ \A issue \in Issues :
            (/\ AssignId(issue)
             /\ compute_id(registry, project_code, issue).global_id \in DOMAIN registry)
            => /\ registry' = registry
               /\ last'.raised = Some("DuplicateId")]_vars

\* the members of a registry file as a set: its mapping, whatever the order
Members(file) == {file.entries[i] : i \in 1..Len(file.entries)}

SameMapping(a, b) ==
    /\ a.kind = "json" /\ b.kind = "json"
    /\ Len(a.entries) = Len(b.entries)
    /\ Members(a) = Members(b)

\* C7: when an instance saves the registry it loaded, with no assign_id and
\* no update_github_number since loading, the file maps the same global ids
\* to the same records as before.
C7_RoundTrip ==
    (last.op = "save" /\ ~mutated /\ loaded.kind = "json") => SameMapping(store, loaded)

\* C7 witness: such a save has rewritten a file of several records whose
\* members were not in sorted order.
C7_Witness ==
    /\ last.op = "save" /\ ~mutated /\ loaded.kind = "json"
    /\ Len(loaded.entries) >= 2
    /\ store # loaded

-----------------------------------------------------------------------------
(* Claims about a run of the importer (SpecBatch, SpecRun).                *)

\* a creation call of this run failed: it gave no number
SomeCreationFailed == \E i \in 1..Len(created) : created[i].result = None

\* C8: in a live run a failed remote creation does not end the run: when a
\* creation call has failed and the run is over, every epic and issue has
\* been tried, in backlog order; the record of an item whose creation failed
\* has no remote number, and the record of an item whose creation succeeded
\* has the number returned.
C8_PartialFailureContinues ==
    ~dry_run =>
        /\ \A i \in 1..Len(created) :
              /\ created[i].global_id = history[i].global_id
              /\ created[i].global_id \in DOMAIN registry
              /\ registry[created[i].global_id].github_number = created[i].result
              /\ registry[created[i].global_id].title = Items[i].title
        /\ (phase \in {"done", "failed"} /\ SomeCreationFailed)
              => Len(created) = Len(Items)

\* C9: when the registry file exists but cannot be parsed, the constructor
\* fails with the parse error instead of starting from an empty registry, the
\* run makes no assignment and the file is not written; a missing file is no
\* error and gives an empty registry.
C9_CorruptStateAborts ==
    /\ loaded = CorruptStore =>
          /\ phase = "crashed"
          /\ last = [op |-> "load", key |-> "", raised |-> Some("JSONDecodeError")]
          /\ history = <<>>
          /\ created = <<>>
          /\ store = CorruptStore
    /\ (loaded = MissingStore /\ last.op = "load") =>
          /\ phase # "crashed"
          /\ last.raised = None
          /\ registry = EmptyDict

\* C9 witness: a run found an unparseable registry file and stopped in the
\* constructor.
C9_Witness ==
    /\ loaded = CorruptStore
    /\ phase = "crashed"
    /\ runs = 1

-----------------------------------------------------------------------------
(* Claims about concurrent callers (SpecRace).                             *)

BothDone == \A c \in Callers : callers.call[c].pc = "done"

Happened(kind, c) == \E i \in 1..Len(callers.events) : callers.events[i] = <<kind, c>>

EventPos(kind, c) == CHOOSE i \in 1..Len(callers.events) : callers.events[i] = <<kind, c>>

\* both counts were finished before either insert
Overlapped ==
    /\ \A c \in Callers : Happened("count", c)
    /\ \A c, d \in Callers :
          Happened("insert", c) => EventPos("count", d) < EventPos("insert", c)

\* one call counted and inserted before the other began
Sequential ==
    \E c, d \in Callers :
        /\ c # d
        /\ Happened("insert", c) /\ Happened("begin", d)
        /\ EventPos("insert", c) < EventPos("begin", d)

FirstInserter ==
    CHOOSE c \in Callers : \A d \in Callers : EventPos("insert", c) <= EventPos("insert", d)

LastInserter ==
    CHOOSE c \in Callers : \A d \in Callers : EventPos("insert", d) <= EventPos("insert", c)

SamePrefix == callers.call[1].id.prefix = callers.call[2].id.prefix

RecordOf(c) ==
    NewRecord(callers.call[c].id, project_code, repo_name, callers.call[c].issue)

\* C10: when both callers finish the count before either inserts and their
\* items resolve to the same prefix, both get the same global id and the
\* registry ends with one new record, that of the caller that inserted last;
\* when each call counts and inserts without the other in between, the two
\* ids differ and both records are in the registry.
C10_CountThenInsertRace ==
    BothDone =>
        /\ (Overlapped /\ SamePrefix) =>
              /\ callers.call[1].id.global_id = callers.call[2].id.global_id
              /\ registry[callers.call[1].id.global_id] = RecordOf(LastInserter)
              /\ Cardinality(DOMAIN registry) = callers.base + 1
        /\ Sequential =>
              /\ callers.call[1].id.global_id # callers.call[2].id.global_id
              /\ \A c \in Callers : registry[callers.call[c].id.global_id] = RecordOf(c)
              /\ Cardinality(DOMAIN registry) = callers.base + 2

\* C10 witness: two different items of one prefix were counted, over a
\* registry of several keys, before either was inserted, and the record of
\* the first inserter is gone.
C10_Witness ==
    /\ BothDone /\ Overlapped /\ SamePrefix
    /\ callers.base >= 2
    /\ callers.call[1].issue # callers.call[2].issue
    /\ callers.call[1].id.global_id = callers.call[2].id.global_id
    /\ registry[callers.call[1].id.global_id] # RecordOf(FirstInserter)

-----------------------------------------------------------------------------
(* Claims about repeated invocations in either mode (SpecDry).             *)

\* the global ids that are keys of a registry file
StoredIds(file) == {m[1] : m \in Members(file)}

\* C11: a dry run never writes the registry file: from the constructor to
\* the end of the process the file is the one the run found, while the ids
\* it assigned are in the in-memory registry with no remote number; a dry
\* run that repeats the previous dry run (same repository, same backlog)
\* therefore assigns the same global ids again.  In a live run, once the
\* creation loops are reached every item has its id and the file holds the
\* saved registry with all of them, and that save is the last registry
\* operation before the first creation call.
C11_DryRunNeverWrites ==
    /\ (dry_run /\ phase # "none") =>
          /\ store = loaded
          /\ \A i \in 1..Len(history) :
                /\ history[i].global_id \in DOMAIN registry
                /\ registry[history[i].global_id].github_number = None
    /\ \A p \in ret :
          (/\ dry_run /\ p.dry
           /\ phase \in {"creating", "done"}
           /\ p.repo = repo_name /\ p.epics = epics /\ p.issues = issues)
          => AssignedIds = p.ids
    /\ (~dry_run /\ phase = "creating") =>
          /\ Len(history) = Len(Items)
          /\ store = save_registry(registry)
          /\ \A i \in 1..Len(history) : history[i].global_id \in StoredIds(store)
          /\ (created = <<>> => last.op = "save")

\* C11 witness: a dry run of two items on a file of several records has
\* ended, its registry holds more records than the file, and the dry run
\* before it had the same backlog and assigned the same ids.
C11_Witness ==
    /\ dry_run /\ phase = "done"
    /\ Len(history) >= 2
    /\ store.kind = "json" /\ Len(store.entries) >= 2
    /\ Cardinality(DOMAIN registry) > Len(store.entries)
    /\ ret # None
    /\ \A p \in ret :
          /\ p.dry /\ p.epics = epics /\ p.issues = issues
          /\ p.ids = AssignedIds

====
